---- MODULE Spec2Model ----
(***************************************************************************)
(* A model of cmd/root.go of gnmic: the fan-in consumers printer and       *)
(* gather, the channel factory createGrpcConn with its certificate         *)
(* loaders, the typed-value decoder getValue and the path formatter        *)
(* gnmiPathToXPath.  Each component has its own specification over the     *)
(* shared variables; the variables of the other components stay put.       *)
(***************************************************************************)
EXTENDS Integers, Sequences, FiniteSets, TLC

VARIABLES
  \* printer / gather and the goroutines around them
  consumer,   \* which consumer function runs: "printer" or "gather"
  chanCap,    \* capacity of the channel c handed to the consumer
  c,          \* buffer of the channel c
  sent,       \* per producer: how many of its sends have completed
  cpc,        \* position of the consumer goroutine
  m,          \* the consumer's local m
  ls,         \* *ls of gather
  stdout,     \* lines written by fmt.Println in printer
  ctxDone,    \* ctx.Done() is closed
  latched,    \* the items whose send had completed when ctx was cancelled
  \* createGrpcConn
  viper,      \* the settings createGrpcConn and the loaders read from viper
  gpc,        \* position in createGrpcConn
  opts,       \* the dial options collected so far
  tlsConfig,  \* *tlsConfig
  events,     \* calls and I/O made so far, in order
  ret,        \* what createGrpcConn returned
  \* getValue
  updValue,   \* the argument of getValue
  vpc,        \* position of the caller of getValue
  vret,       \* what getValue returned
  \* gnmiPathToXPath
  path,       \* the argument p of gnmiPathToXPath
  xpc,        \* position of the caller of gnmiPathToXPath
  xpath       \* what gnmiPathToXPath returned

aggVars == <<consumer, chanCap, c, sent, cpc, m, ls, stdout, ctxDone, latched>>
connVars == <<viper, gpc, opts, tlsConfig, events, ret>>
valVars == <<updValue, vpc, vret>>
pathVars == <<path, xpc, xpath>>

vars == <<aggVars, connVars, valVars, pathVars>>

----------------------------------------------------------------------------
(* Bounds *)

MaxItems == 2      \* sends per producer
MaxCap == 1        \* largest channel capacity tried

MaxTimeoutLen == 3 \* characters in the timeout setting
MaxJsonLen == 3    \* tokens in a JSON payload
MaxElems == 2      \* elements in a path

----------------------------------------------------------------------------
(* The state of a component that is not running *)

NoItem == <<"", 0>>

NilPool == [isNil |-> TRUE, certs |-> {}]

NilCerts == [isNil |-> TRUE, certs |-> <<>>]

NoTLSConfig ==
  [built |-> FALSE, Renegotiation |-> "", InsecureSkipVerify |-> FALSE,
   Certificates |-> NilCerts, RootCAs |-> NilPool]

NoRet == [conn |-> "nil", err |-> "nil"]

AggIdle ==
  /\ consumer = "gather" /\ chanCap = 0 /\ c = <<>> /\ sent = <<>>
  /\ cpc = "Idle" /\ m = NoItem /\ ls = <<>> /\ stdout = <<>>
  /\ ctxDone = FALSE /\ latched = {}

ConnIdle ==
  /\ viper = <<>> /\ gpc = "idle" /\ opts = <<>> /\ tlsConfig = NoTLSConfig
  /\ events = <<>> /\ ret = NoRet

ValIdle == updValue = <<>> /\ vpc = "idle" /\ vret = <<>>

PathIdle == path = <<>> /\ xpc = "idle" /\ xpath = <<>>

----------------------------------------------------------------------------
(* printer, gather *)

Producers == {"p1", "p2"}

\* the i-th string producer p sends
Item(p, i) == <<p, i>>

SendSeq(p) == [i \in 1..MaxItems |-> Item(p, i)]

\* the items whose send has completed
Placed == UNION {{Item(p, i) : i \in 1..sent[p]} : p \in Producers}

AggInit ==
  /\ consumer \in {"printer", "gather"}
  /\ chanCap \in 0..MaxCap
  /\ c = <<>>
  /\ sent = [p \in Producers |-> 0]
  /\ cpc = "Idle"
  /\ m = NoItem
  /\ ls = <<>>
  /\ stdout = <<>>
  /\ ctxDone = FALSE
  /\ latched = {}

\* go printer(ctx, c) / go gather(ctx, c, &ls): the goroutine reaches its select
Start ==
  /\ cpc = "Idle"
  /\ cpc' = "Running"
  /\ UNCHANGED <<consumer, chanCap, c, sent, m, ls, stdout, ctxDone, latched>>
  /\ UNCHANGED <<connVars, valVars, pathVars>>

\* c <- s in a producer, the buffer has room
SendBuffered(p) ==
  /\ sent[p] < MaxItems
  /\ Len(c) < chanCap
  /\ c' = Append(c, Item(p, sent[p] + 1))
  /\ sent' = [sent EXCEPT ![p] = @ + 1]
  /\ UNCHANGED <<consumer, chanCap, cpc, m, ls, stdout, ctxDone, latched>>
  /\ UNCHANGED <<connVars, valVars, pathVars>>

\* c <- s in a producer meeting the consumer parked in its select: the value
\* is handed over directly (the only way a send on an unbuffered channel
\* completes)
SendHandoff(p) ==
  /\ sent[p] < MaxItems
  /\ cpc = "Running"
  /\ c = <<>>
  /\ m' = Item(p, sent[p] + 1)
  /\ sent' = [sent EXCEPT ![p] = @ + 1]
  /\ cpc' = "Received"
  /\ UNCHANGED <<consumer, chanCap, c, ls, stdout, ctxDone, latched>>
  /\ UNCHANGED <<connVars, valVars, pathVars>>

\* case m := <-c: is chosen by the select, from the buffer
Receive ==
  /\ cpc = "Running"
  /\ c # <<>>
  /\ m' = Head(c)
  /\ c' = Tail(c)
  /\ cpc' = "Received"
  /\ UNCHANGED <<consumer, chanCap, sent, ls, stdout, ctxDone, latched>>
  /\ UNCHANGED <<connVars, valVars, pathVars>>

GatherPrepend(l, s) == <<s>> \o l

\* *ls = append(*ls, m)
GatherAppend(l, s) == Append(l, s)

\* the body of case m := <-c:
Process ==
  /\ cpc = "Received"
  /\ IF consumer = "gather"
       THEN ls' = GatherAppend(ls, m) /\ UNCHANGED stdout
       ELSE stdout' = Append(stdout, m) /\ UNCHANGED ls
  /\ m' = NoItem
  /\ cpc' = "Running"
  /\ UNCHANGED <<consumer, chanCap, c, sent, ctxDone, latched>>
  /\ UNCHANGED <<connVars, valVars, pathVars>>

DoneNeverReady == FALSE

\* case <-ctx.Done(): can proceed
DoneReady == ctxDone

\* case <-ctx.Done(): return
Return ==
  /\ cpc = "Running"
  /\ DoneReady
  /\ cpc' = "Stopped"
  /\ UNCHANGED <<consumer, chanCap, c, sent, m, ls, stdout, ctxDone, latched>>
  /\ UNCHANGED <<connVars, valVars, pathVars>>

\* the caller cancels ctx
Cancel ==
  /\ ~ctxDone
  /\ ctxDone' = TRUE
  /\ latched' = Placed
  /\ UNCHANGED <<consumer, chanCap, c, sent, cpc, m, ls, stdout>>
  /\ UNCHANGED <<connVars, valVars, pathVars>>

NextAgg ==
  \/ Start
  \/ \E p \in Producers : SendBuffered(p)
  \/ \E p \in Producers : SendHandoff(p)
  \/ Receive
  \/ Process
  \/ Return
  \/ Cancel

InitAgg == AggInit /\ ConnIdle /\ ValIdle /\ PathIdle

SpecAgg == InitAgg /\ [][NextAgg]_vars

\* The select picks uniformly at random among the cases that can proceed, so
\* a case that can proceed again and again is eventually picked; a goroutine
\* that can run eventually runs.
SpecAggFair ==
  /\ InitAgg
  /\ [][NextAgg]_vars
  /\ WF_vars(Start)
  /\ WF_vars(Process)
  /\ SF_vars(Return)

----------------------------------------------------------------------------
(* Claims about printer and gather *)

Range(s) == {s[i] : i \in DOMAIN s}

\* what the consumer has printed or appended
Processed == Range(ls) \cup Range(stdout)

FromProducer(l, p) == SelectSeq(l, LAMBDA x : x[1] = p)

\* C1: every item a producer placed on the channel before the cancellation
\* fired has been printed or appended when the consumer has returned.
C1_NoItemDropped == cpc = "Stopped" => latched \subseteq Processed

C3_Lifecycle ==
  /\ ctxDone ~> cpc = "Stopped"
  /\ [][cpc = "Stopped" => cpc' = "Stopped" /\ ls' = ls /\ stdout' = stdout]_vars
  /\ [][cpc = "Idle" => cpc' \in {"Idle", "Running"}]_vars
  /\ [][cpc' = "Stopped" => ctxDone]_vars

\* the consumer has returned although items were still on offer, and a
\* producer placed an item after the return
C3_Witness ==
  /\ cpc = "Stopped"
  /\ ctxDone
  /\ c # <<>>
  /\ \E p \in Producers : sent[p] < MaxItems
  /\ ~(Range(c) \subseteq latched)

----------------------------------------------------------------------------
(* time.ParseDuration, as createGrpcConn uses it.  Strings are sequences of
   characters; the duration is in milliseconds, rounded down. *)

DurChars == {"0", "3", "m", "s", "."}

RECURSIVE StringsUpTo(_, _)
StringsUpTo(chars, n) ==
  IF n = 0 THEN {<<>>}
  ELSE LET shorter == StringsUpTo(chars, n - 1) IN
         shorter \cup {Append(w, ch) : w \in shorter, ch \in chars}

Take(s, n) == SubSeq(s, 1, n)

Drop(s, n) == SubSeq(s, n + 1, Len(s))

IsDigit(ch) == ch \in {"0", "3"}

DigitVal(ch) == IF ch = "3" THEN 3 ELSE 0

\* how many characters of [0-9]* lead s
RECURSIVE LeadingDigits(_)
LeadingDigits(s) ==
  IF s # <<>> /\ IsDigit(Head(s)) THEN 1 + LeadingDigits(Tail(s)) ELSE 0

RECURSIVE DigitsValue(_)
DigitsValue(ds) ==
  IF ds = <<>> THEN 0
  ELSE DigitsValue(Take(ds, Len(ds) - 1)) * 10 + DigitVal(ds[Len(ds)])

RECURSIVE Pow10(_)
Pow10(n) == IF n = 0 THEN 1 ELSE 10 * Pow10(n - 1)

\* how many characters lead s up to the next '.' or digit
RECURSIVE UnitLen(_)
UnitLen(s) ==
  IF s # <<>> /\ ~IsDigit(Head(s)) /\ Head(s) # "."
    THEN 1 + UnitLen(Tail(s)) ELSE 0

\* unitMap, in milliseconds, for the units the characters can spell
UnitMap == (<<"m", "s">> :> 1) @@ (<<"s">> :> 1000) @@ (<<"m">> :> 60000)

DurErr == [err |-> TRUE, d |-> 0]

\* the loop "for s != """ of ParseDuration: one ([0-9]*(\.[0-9]*)?[a-z]+) a turn
RECURSIVE ParseGroups(_, _)
ParseGroups(s, d) ==
  IF s = <<>> THEN [err |-> FALSE, d |-> d]
  ELSE IF ~(Head(s) = "." \/ IsDigit(Head(s))) THEN DurErr
  ELSE
    LET n == LeadingDigits(s)
        v == DigitsValue(Take(s, n))
        s1 == Drop(s, n)
        hasDot == s1 # <<>> /\ Head(s1) = "."
        s2 == IF hasDot THEN Tail(s1) ELSE s1
        fn == IF hasDot THEN LeadingDigits(s2) ELSE 0
        f == DigitsValue(Take(s2, fn))
        s3 == Drop(s2, fn)
        i == UnitLen(s3)
        u == Take(s3, i)
    IN IF n = 0 /\ fn = 0 THEN DurErr
       ELSE IF i = 0 THEN DurErr
       ELSE IF u \notin DOMAIN UnitMap THEN DurErr
       ELSE ParseGroups(Drop(s3, i),
                        d + v * UnitMap[u] + (f * UnitMap[u]) \div Pow10(fn))

ParseDuration(s) ==
  IF s = <<"0">> THEN [err |-> FALSE, d |-> 0]
  ELSE IF s = <<>> THEN DurErr
  ELSE ParseGroups(s, 0)

----------------------------------------------------------------------------
(* loadCerts, loadCACerts *)

\* tls.Certificate{}, the zero value
ZeroCert == "zero"

\* what ioutil.ReadFile(tlsCa) can meet: no readable file, a file without a
\* certificate, a bundle of one certificate
CaFiles ==
  {[readable |-> FALSE, pem |-> {}],
   [readable |-> TRUE, pem |-> {}],
   [readable |-> TRUE, pem |-> {"ca1"}]}

\* keyPairOK: whether tls.LoadX509KeyPair succeeds on the two files
loadCerts(keyPairOK) ==
  IF viper.tls_cert # "" /\ viper.tls_key # ""
    THEN IF keyPairOK
           THEN [certs |-> [isNil |-> FALSE, certs |-> <<"keypair">>],
                 err |-> FALSE, io |-> <<"tls.LoadX509KeyPair">>]
           ELSE [certs |-> NilCerts, err |-> TRUE,
                 io |-> <<"tls.LoadX509KeyPair">>]
    ELSE [certs |-> [isNil |-> FALSE, certs |-> <<ZeroCert>>],
          err |-> FALSE, io |-> <<>>]

\* caFile: what is at the path tlsCa
loadCACerts(caFile) ==
  IF viper.tls_ca # ""
    THEN IF ~caFile.readable
           THEN [pool |-> NilPool, err |-> TRUE, io |-> <<"ioutil.ReadFile">>]
         ELSE IF caFile.pem = {}
           THEN [pool |-> NilPool, err |-> TRUE, io |-> <<"ioutil.ReadFile">>]
         ELSE [pool |-> [isNil |-> FALSE, certs |-> caFile.pem],
               err |-> FALSE, io |-> <<"ioutil.ReadFile">>]
    ELSE [pool |-> [isNil |-> FALSE, certs |-> {}], err |-> FALSE, io |-> <<>>]

----------------------------------------------------------------------------
(* createGrpcConn *)

Timeouts == StringsUpTo(DurChars, MaxTimeoutLen)

Settings ==
  [timeout : Timeouts, max_msg_size : {0, 512}, proxy_from_env : BOOLEAN,
   insecure : BOOLEAN, skip_verify : BOOLEAN,
   tls_cert : {"", "cert.pem"}, tls_key : {"", "key.pem"},
   tls_ca : {"", "ca.pem"}]

Opt(name, arg) == [opt |-> name, arg |-> arg]

ConnInit ==
  /\ viper \in Settings
  /\ gpc = "parse"
  /\ opts = <<>>
  /\ tlsConfig = NoTLSConfig
  /\ events = <<>>
  /\ ret = NoRet

ParseTimeoutUnchecked ==
  /\ gpc = "parse"
  /\ opts' = <<Opt("WithTimeout", ParseDuration(viper.timeout).d)>>
  /\ gpc' = "opts"
  /\ UNCHANGED <<viper, tlsConfig, events, ret>>
  /\ UNCHANGED <<aggVars, valVars, pathVars>>

\* timeout, err := time.ParseDuration(...); if err != nil { return nil, err }
ParseTimeout ==
  /\ gpc = "parse"
  /\ LET t == ParseDuration(viper.timeout) IN
       IF t.err
         THEN /\ ret' = [conn |-> "nil", err |-> "ParseDuration"]
              /\ gpc' = "done"
              /\ UNCHANGED opts
         ELSE /\ opts' = <<Opt("WithTimeout", t.d)>>
              /\ gpc' = "opts"
              /\ UNCHANGED ret
  /\ UNCHANGED <<viper, tlsConfig, events>>
  /\ UNCHANGED <<aggVars, valVars, pathVars>>

\* WithBlock, MaxCallRecvMsgSize if max-msg-size > 0, WithNoProxy unless
\* proxy-from-env
BuildOpts ==
  /\ gpc = "opts"
  /\ opts' = opts \o <<Opt("WithBlock", 0)>>
               \o (IF viper.max_msg_size > 0
                     THEN <<Opt("MaxCallRecvMsgSize", viper.max_msg_size)>>
                     ELSE <<>>)
               \o (IF ~viper.proxy_from_env
                     THEN <<Opt("WithNoProxy", 0)>> ELSE <<>>)
  /\ gpc' = "creds"
  /\ UNCHANGED <<viper, tlsConfig, events, ret>>
  /\ UNCHANGED <<aggVars, valVars, pathVars>>

InsecureIgnored == FALSE

\* if viper.GetBool("insecure")
InsecureSet == viper.insecure

\* opts = append(opts, grpc.WithInsecure())
DialInsecure ==
  /\ gpc = "creds"
  /\ InsecureSet
  /\ opts' = Append(opts, Opt("WithInsecure", 0))
  /\ gpc' = "dial"
  /\ UNCHANGED <<viper, tlsConfig, events, ret>>
  /\ UNCHANGED <<aggVars, valVars, pathVars>>

TLSLoadCertsFatal ==
  /\ gpc = "creds"
  /\ ~InsecureSet
  /\ \E keyPairOK \in BOOLEAN :
       LET r == loadCerts(keyPairOK) IN
         /\ events' = events \o <<"loadCerts">> \o r.io
         /\ IF r.err
              THEN /\ ret' = [conn |-> "nil", err |-> "loadCerts"]
                   /\ gpc' = "done"
                   /\ UNCHANGED tlsConfig
              ELSE /\ tlsConfig' =
                        [built |-> TRUE, Renegotiation |-> "RenegotiateNever",
                         InsecureSkipVerify |-> viper.skip_verify,
                         Certificates |-> r.certs, RootCAs |-> NilPool]
                   /\ gpc' = "ca"
                   /\ UNCHANGED ret
  /\ UNCHANGED <<viper, opts>>
  /\ UNCHANGED <<aggVars, valVars, pathVars>>

\* tlsConfig := &tls.Config{...}; certificates, err := loadCerts();
\* the error is logged; tlsConfig.Certificates = certificates
TLSLoadCerts ==
  /\ gpc = "creds"
  /\ ~InsecureSet
  /\ \E keyPairOK \in BOOLEAN :
       LET r == loadCerts(keyPairOK) IN
         /\ events' = events \o <<"loadCerts">> \o r.io
              \o (IF r.err THEN <<"log: failed loading certificates">>
                           ELSE <<>>)
         /\ tlsConfig' =
              [built |-> TRUE, Renegotiation |-> "RenegotiateNever",
               InsecureSkipVerify |-> viper.skip_verify,
               Certificates |-> r.certs, RootCAs |-> NilPool]
  /\ gpc' = "ca"
  /\ UNCHANGED <<viper, opts, ret>>
  /\ UNCHANGED <<aggVars, valVars, pathVars>>

\* certPool, err := loadCACerts(); the error is logged;
\* tlsConfig.RootCAs = certPool; WithTransportCredentials(NewTLS(tlsConfig))
TLSLoadCACerts ==
  /\ gpc = "ca"
  /\ \E caFile \in CaFiles :
       LET r == loadCACerts(caFile) IN
         /\ events' = events \o <<"loadCACerts">> \o r.io
              \o (IF r.err THEN <<"log: failed loading CA certificates">>
                           ELSE <<>>)
         /\ tlsConfig' = [tlsConfig EXCEPT !.RootCAs = r.pool]
  /\ opts' = Append(opts, Opt("WithTransportCredentials", 0))
  /\ gpc' = "dial"
  /\ UNCHANGED <<viper, ret>>
  /\ UNCHANGED <<aggVars, valVars, pathVars>>

\* conn, err := grpc.Dial(address, opts...), which connects or fails
Dial ==
  /\ gpc = "dial"
  /\ \E dialOK \in BOOLEAN :
       /\ events' = Append(events, IF dialOK THEN "grpc.Dial: connected"
                                             ELSE "grpc.Dial: failed")
       /\ ret' = IF dialOK THEN [conn |-> "conn", err |-> "nil"]
                           ELSE [conn |-> "nil", err |-> "Dial"]
  /\ gpc' = "done"
  /\ UNCHANGED <<viper, opts, tlsConfig>>
  /\ UNCHANGED <<aggVars, valVars, pathVars>>

NextConn ==
  \/ ParseTimeout
  \/ BuildOpts
  \/ DialInsecure
  \/ TLSLoadCerts
  \/ TLSLoadCACerts
  \/ Dial

InitConn == AggIdle /\ ConnInit /\ ValIdle /\ PathIdle

SpecConn == InitConn /\ [][NextConn]_vars

----------------------------------------------------------------------------
(* Claims about createGrpcConn *)

Count(seq, e) == Cardinality({i \in DOMAIN seq : seq[i] = e})

DialEvents == {"grpc.Dial: connected", "grpc.Dial: failed"}

\* calls of the loaders and reads of certificate, key and CA files
CertEvents == {"loadCerts", "loadCACerts", "tls.LoadX509KeyPair", "ioutil.ReadFile"}

\* C6: with an unparseable timeout createGrpcConn returns an error and no
\* connection before any other step: no option is built, no loader runs, no
\* file is read and nothing is dialled, whatever the other settings are.
C6_BadTimeoutFailsFirst ==
  ParseDuration(viper.timeout).err =>
    /\ events = <<>>
    /\ opts = <<>>
    /\ ~tlsConfig.built
    /\ gpc \in {"parse", "done"}
    /\ gpc = "done" => ret = [conn |-> "nil", err |-> "ParseDuration"]

C6_Witness ==
  /\ gpc = "done"
  /\ viper.timeout = <<"3", "0">>
  /\ ~viper.insecure /\ viper.tls_ca # "" /\ viper.tls_cert # ""
  /\ viper.tls_key # ""
  /\ ret.err = "ParseDuration"

\* C7: with insecure set neither loader is called and no certificate, key or
\* CA file is read, whatever the tls-cert, tls-key and tls-ca paths are;
\* without it each loader has been called exactly once when grpc.Dial is called.
C7_InsecureReadsNoCerts ==
  /\ viper.insecure => \A i \in DOMAIN events : events[i] \notin CertEvents
  /\ (~viper.insecure /\ (gpc = "dial" \/ \E i \in DOMAIN events : events[i] \in DialEvents)) =>
       LET n == IF gpc = "dial" THEN Len(events) ELSE Len(events) - 1
           before == Take(events, n)
       IN /\ Count(before, "loadCerts") = 1
          /\ Count(before, "loadCACerts") = 1
          /\ \A i \in DOMAIN before : before[i] \notin DialEvents

C7_Witness ==
  /\ gpc = "done"
  /\ viper.insecure
  /\ viper.tls_ca # "" /\ viper.tls_cert # "" /\ viper.tls_key # ""
  /\ ret.conn = "conn"

\* C8: in secured mode no outcome of the two loaders is fatal: the dial is
\* attempted all the same, and the result is an error for an unparseable
\* timeout and otherwise what grpc.Dial gave, never a loader's error.
C8_LoaderErrorsNotFatal ==
  /\ ret.err \in {"nil", "ParseDuration", "Dial"}
  /\ (~viper.insecure /\ gpc = "done") =>
       IF ParseDuration(viper.timeout).err
         THEN ret = [conn |-> "nil", err |-> "ParseDuration"]
         ELSE /\ events # <<>>
              /\ events[Len(events)] \in DialEvents
              /\ ret = IF events[Len(events)] = "grpc.Dial: connected"
                         THEN [conn |-> "conn", err |-> "nil"]
                         ELSE [conn |-> "nil", err |-> "Dial"]

C8_Witness ==
  /\ gpc = "done"
  /\ ~viper.insecure
  /\ Count(events, "log: failed loading certificates") = 1
  /\ Count(events, "log: failed loading CA certificates") = 1
  /\ ret = [conn |-> "conn", err |-> "nil"]

\* C10: in secured mode the trust pool put into the TLS configuration is
\* always a pool loadCACerts built, empty for an empty tls-ca path, and never
\* the absent (nil) pool, whatever the outcome of loading the CA file.
C10_TrustPoolNeverNil ==
  (tlsConfig.built /\ gpc \in {"dial", "done"}) =>
    /\ ~tlsConfig.RootCAs.isNil
    /\ viper.tls_ca = "" => tlsConfig.RootCAs.certs = {}

----------------------------------------------------------------------------
(* encoding/json.Unmarshal into an interface{}, as getValue uses it.  A
   payload is a sequence of JSON tokens; 1 is the only number, 'k' the only
   string.  An interface value is [kind, val]: kind is the dynamic type, and
   "nil" for the nil interface. *)

JsonTokens == {"null", "1", "'k'", "[", "]", "{", "}", ":", ","}

NilIface == [kind |-> "nil", val |-> <<>>]

\* an interface holding x with dynamic type t; never the nil interface
Box(t, x) == [kind |-> t, val |-> x]

JFail == [ok |-> FALSE, val |-> NilIface, rest |-> <<>>]

\* m[key] = v on a map kept as a sequence of <<key, value>>
MapPut(entries, key, v) ==
  SelectSeq(entries, LAMBDA e : e[1] # key) \o <<<<key, v>>>>

RECURSIVE ParseValue(_)
RECURSIVE ParseElements(_, _)
RECURSIVE ParseMembers(_, _)

\* one JSON value at the head of s
ParseValue(s) ==
  IF s = <<>> THEN JFail
  ELSE CASE Head(s) = "null" -> [ok |-> TRUE, val |-> NilIface, rest |-> Tail(s)]
         [] Head(s) = "1" ->
              [ok |-> TRUE, val |-> Box("float64", 1), rest |-> Tail(s)]
         [] Head(s) = "'k'" ->
              [ok |-> TRUE, val |-> Box("string", "k"), rest |-> Tail(s)]
         [] Head(s) = "[" ->
              IF Len(s) >= 2 /\ s[2] = "]"
                THEN [ok |-> TRUE, val |-> Box("[]interface {}", <<>>),
                      rest |-> Drop(s, 2)]
                ELSE ParseElements(Tail(s), <<>>)
         [] Head(s) = "{" ->
              IF Len(s) >= 2 /\ s[2] = "}"
                THEN [ok |-> TRUE, val |-> Box("map[string]interface {}", <<>>),
                      rest |-> Drop(s, 2)]
                ELSE ParseMembers(Tail(s), <<>>)
         [] OTHER -> JFail

\* the elements of an array after "[" or ",", up to and including "]"
ParseElements(s, acc) ==
  LET v == ParseValue(s) IN
    IF ~v.ok \/ v.rest = <<>> THEN JFail
    ELSE IF Head(v.rest) = ","
      THEN ParseElements(Tail(v.rest), Append(acc, v.val))
    ELSE IF Head(v.rest) = "]"
      THEN [ok |-> TRUE, val |-> Box("[]interface {}", Append(acc, v.val)),
            rest |-> Tail(v.rest)]
    ELSE JFail

\* the members of an object after "{" or ",", up to and including "}"
ParseMembers(s, acc) ==
  IF Len(s) < 2 \/ s[1] # "'k'" \/ s[2] # ":" THEN JFail
  ELSE
    LET v == ParseValue(Drop(s, 2)) IN
      IF ~v.ok \/ v.rest = <<>> THEN JFail
      ELSE IF Head(v.rest) = ","
        THEN ParseMembers(Tail(v.rest), MapPut(acc, "k", v.val))
      ELSE IF Head(v.rest) = "}"
        THEN [ok |-> TRUE,
              val |-> Box("map[string]interface {}", MapPut(acc, "k", v.val)),
              rest |-> Tail(v.rest)]
      ELSE JFail

\* json.Unmarshal(data, &value) with value the nil interface: the whole of
\* data must be one JSON value; on an error value is left as it was
Unmarshal(data) ==
  LET r == ParseValue(data) IN
    IF r.ok /\ r.rest = <<>>
      THEN [err |-> FALSE, value |-> r.val]
      ELSE [err |-> TRUE, value |-> NilIface]

----------------------------------------------------------------------------
(* getValue *)

PassThrough ==
  {"AsciiVal", "BoolVal", "BytesVal", "DecimalVal", "FloatVal", "IntVal",
   "StringVal", "UintVal", "LeaflistVal", "ProtoBytes", "AnyVal"}

JsonVariants == {"JsonIetfVal", "JsonVal"}

\* the Go type of the payload a variant's getter returns
GoType(variant) ==
  CASE variant = "AsciiVal" -> "string"
    [] variant = "BoolVal" -> "bool"
    [] variant = "BytesVal" -> "[]uint8"
    [] variant = "DecimalVal" -> "*gnmi.Decimal64"
    [] variant = "FloatVal" -> "float32"
    [] variant = "IntVal" -> "int64"
    [] variant = "StringVal" -> "string"
    [] variant = "UintVal" -> "uint64"
    [] variant = "LeaflistVal" -> "*gnmi.ScalarArray"
    [] variant = "ProtoBytes" -> "[]uint8"
    [] variant = "AnyVal" -> "*any.Any"

\* a slice or a pointer: nil, or with content
Ref(isNil, x) == [isNil |-> isNil, at |-> x]

NilRef == Ref(TRUE, <<>>)

JsonPayloads == StringsUpTo(JsonTokens, MaxJsonLen)

\* the payloads a variant can carry
Payloads(variant) ==
  CASE variant \in {"AsciiVal", "StringVal"} -> {"", "a"}
    [] variant = "BoolVal" -> BOOLEAN
    [] variant \in {"BytesVal", "ProtoBytes"} ->
         {NilRef, Ref(FALSE, <<>>), Ref(FALSE, <<"1">>)}
    [] variant = "DecimalVal" -> {NilRef, Ref(FALSE, <<42, 1>>)}
    [] variant = "FloatVal" -> {0, 1}
    [] variant = "IntVal" -> {0 - 1, 0, 42}
    [] variant = "UintVal" -> {0, 42}
    [] variant = "LeaflistVal" -> {NilRef, Ref(FALSE, <<>>), Ref(FALSE, <<"a">>)}
    [] variant = "AnyVal" -> {NilRef, Ref(FALSE, <<"type.url">>)}
    [] variant \in JsonVariants ->
         {NilRef} \cup {Ref(FALSE, b) : b \in JsonPayloads}
    [] variant = "none" -> {NilRef}

TypedValues ==
  UNION {{[variant |-> v, payload |-> x] : x \in Payloads(v)} :
           v \in PassThrough \cup JsonVariants \cup {"none"}}

IsNilOrNilPointer(v) ==
  \/ v.kind = "nil"
  \/ /\ v.kind \in {"[]uint8", "*gnmi.Decimal64", "*gnmi.ScalarArray", "*any.Any"}
     /\ v.val.isNil

\* value == nil, for the interface value
IsNilIface(v) == v.kind = "nil"

getValue(tv) ==
  LET value == IF tv.variant \in PassThrough
                 THEN Box(GoType(tv.variant), tv.payload)
                 ELSE NilIface
      jsondata == IF tv.variant \in JsonVariants THEN tv.payload.at ELSE <<>>
  IN IF IsNilIface(value)
       THEN LET u == Unmarshal(jsondata) IN
              IF u.err
                THEN [value |-> NilIface, err |-> TRUE, unmarshalCalls |-> 1]
                ELSE [value |-> u.value, err |-> FALSE, unmarshalCalls |-> 1]
       ELSE [value |-> value, err |-> FALSE, unmarshalCalls |-> 0]

ValInit ==
  /\ updValue \in TypedValues
  /\ vpc = "call"
  /\ vret = <<>>

\* a caller's value, err := getValue(updValue)
CallGetValue ==
  /\ vpc = "call"
  /\ vret' = getValue(updValue)
  /\ vpc' = "done"
  /\ UNCHANGED updValue
  /\ UNCHANGED <<aggVars, connVars, pathVars>>

NextVal == CallGetValue

InitVal == AggIdle /\ ConnIdle /\ ValInit /\ PathIdle

SpecVal == InitVal /\ [][NextVal]_vars

----------------------------------------------------------------------------
(* Claims about getValue.  What a JSON payload denotes is stated from the
   grammar: the documents are generated, written out and given their value. *)

Doc(kind, children) == [kind |-> kind, val |-> children]

RECURSIVE Render(_)
RECURSIVE RenderList(_, _)

\* the tokens of a document; every member of an object has the key 'k'
Render(d) ==
  CASE d.kind = "null" -> <<"null">>
    [] d.kind = "number" -> <<"1">>
    [] d.kind = "string" -> <<"'k'">>
    [] d.kind = "array" -> <<"[">> \o RenderList(d.val, <<>>) \o <<"]">>
    [] d.kind = "object" -> <<"{">> \o RenderList(d.val, <<"'k'", ":">>) \o <<"}">>

RenderList(l, pre) ==
  IF l = <<>> THEN <<>>
  ELSE pre \o Render(Head(l))
         \o (IF Tail(l) = <<>> THEN <<>> ELSE <<",">> \o RenderList(Tail(l), pre))

\* the native value a document denotes: null is the nil interface, a number
\* a float64, an array a slice, an object a map in which the last member of
\* a key counts
RECURSIVE Denotes(_)
Denotes(d) ==
  CASE d.kind = "null" -> [kind |-> "nil", val |-> <<>>]
    [] d.kind = "number" -> [kind |-> "float64", val |-> 1]
    [] d.kind = "string" -> [kind |-> "string", val |-> "k"]
    [] d.kind = "array" ->
         [kind |-> "[]interface {}",
          val |-> [i \in DOMAIN d.val |-> Denotes(d.val[i])]]
    [] d.kind = "object" ->
         [kind |-> "map[string]interface {}",
          val |-> IF d.val = <<>> THEN <<>>
                  ELSE <<<<"k", Denotes(d.val[Len(d.val)])>>>>]

RECURSIVE DocsUpTo(_)
RECURSIVE ListsUpTo(_, _)

\* the non-empty lists of documents that take at most n tokens when each is
\* preceded by per tokens and they are separated by commas
ListsUpTo(n, per) ==
  IF n < per + 1 THEN {}
  ELSE UNION {{<<d>>} \cup
               {<<d>> \o r : r \in ListsUpTo(n - per - Len(Render(d)) - 1, per)} :
              d \in DocsUpTo(n - per)}

\* the documents of at most n tokens
DocsUpTo(n) ==
  IF n < 1 THEN {}
  ELSE {Doc("null", <<>>), Doc("number", <<>>), Doc("string", <<>>)}
       \cup (IF n < 2 THEN {}
             ELSE {Doc("array", <<>>), Doc("object", <<>>)}
                  \cup {Doc("array", l) : l \in ListsUpTo(n - 2, 0)}
                  \cup {Doc("object", l) : l \in ListsUpTo(n - 2, 2)})

ValidDocs == DocsUpTo(MaxJsonLen)

\* C4: for a typed value with no variant populated and no JSON payload
\* getValue returns nil and no error.
C4_EmptyIsNil ==
  (vpc = "done" /\ updValue.variant = "none") =>
    /\ ~vret.err
    /\ vret.value.kind = "nil"

\* C5: for each of the eleven non-JSON variants and every payload getValue
\* returns that payload unchanged, no error, and does not call the JSON
\* parser; for both JSON variants it returns the value of the document when
\* the payload is a JSON document, and an error and no value when it is not.
C5_Dispatch ==
  vpc = "done" =>
    /\ updValue.variant \in PassThrough =>
         /\ ~vret.err
         /\ vret.unmarshalCalls = 0
         /\ vret.value.kind = GoType(updValue.variant)
         /\ vret.value.val = updValue.payload
    /\ updValue.variant \in JsonVariants =>
         LET docs == {d \in ValidDocs : Render(d) = updValue.payload.at} IN
           IF docs # {}
             THEN /\ ~vret.err
                  /\ \A d \in docs : vret.value = Denotes(d)
             ELSE /\ vret.err
                  /\ vret.value.kind = "nil"

\* a nil byte slice and a nil *Decimal64 come back as they are
C5_Witness ==
  /\ vpc = "done"
  /\ updValue.variant = "DecimalVal"
  /\ updValue.payload.isNil
  /\ ~vret.err
  /\ vret.value.kind = "*gnmi.Decimal64"

----------------------------------------------------------------------------
(* gnmiPathToXPath.  Strings are sequences of characters.  A map is a set of
   <<key, value>> with distinct keys; ranging over it visits the entries in
   any order. *)

Names == {<<>>, <<"a">>, <<"b">>, <<"/">>}

KeyMaps ==
  {Ref(TRUE, {}), Ref(FALSE, {}),
   Ref(FALSE, {<<(<<"k">>), (<<"v">>)>>}),
   Ref(FALSE, {<<(<<"j">>), (<<>>)>>}),
   Ref(FALSE, {<<(<<"k">>), (<<"v">>)>>, <<(<<"j">>), (<<>>)>>})}

\* a *gnmi.PathElem: nil, or a name and a key map
PathElems ==
  {[isNil |-> TRUE, name |-> <<>>, key |-> Ref(TRUE, {})]}
    \cup {[isNil |-> FALSE, name |-> n, key |-> k] : n \in Names, k \in KeyMaps}

RECURSIVE SeqsUpTo(_, _)
SeqsUpTo(S, n) ==
  IF n = 0 THEN {<<>>}
  ELSE LET shorter == SeqsUpTo(S, n - 1) IN
         shorter \cup {Append(w, x) : w \in shorter, x \in S}

\* a *gnmi.Path: nil, or its Elem
Paths == {Ref(TRUE, <<>>)} \cup {Ref(FALSE, e) : e \in SeqsUpTo(PathElems, MaxElems)}

\* pe.GetName(), "" for a nil element
GetName(pe) == IF pe.isNil THEN <<>> ELSE pe.name

\* pe.GetKey(), nil for a nil element
GetKey(pe) == IF pe.isNil THEN Ref(TRUE, {}) ELSE pe.key

\* fmt.Sprintf("[%s=%s]", k, v)
Sprintf(k, v) == <<"[">> \o k \o <<"=">> \o v \o <<"]">>

\* what "for k, v := range pe.GetKey() { elem += ... }" can add to elem, one
\* string for each order of iteration
RECURSIVE RangeKeys(_)
RangeKeys(kv) ==
  IF kv = {} THEN {<<>>}
  ELSE UNION {{Sprintf(e[1], e[2]) \o r : r \in RangeKeys(kv \ {e})} : e \in kv}

\* the values elem can have when it is appended to pathElems
Elem(pe) ==
  LET name == IF GetName(pe) # <<>> THEN GetName(pe) ELSE <<>>
      keys == IF ~GetKey(pe).isNil THEN RangeKeys(GetKey(pe).at) ELSE {<<>>}
  IN {name \o k : k \in keys}

\* the values pathElems can have after the loop over elems
RECURSIVE PathElemsOf(_)
PathElemsOf(elems) ==
  IF elems = <<>> THEN {<<>>}
  ELSE {Append(front, e) : front \in PathElemsOf(Take(elems, Len(elems) - 1)),
                           e \in Elem(elems[Len(elems)])}

RECURSIVE JoinTrailing(_, _)
JoinTrailing(strs, sep) ==
  IF strs = <<>> THEN <<>> ELSE Head(strs) \o sep \o JoinTrailing(Tail(strs), sep)

\* strings.Join(strs, sep)
RECURSIVE Join(_, _)
Join(strs, sep) ==
  IF strs = <<>> THEN <<>>
  ELSE IF Len(strs) = 1 THEN strs[1]
  ELSE Head(strs) \o sep \o Join(Tail(strs), sep)

\* the strings gnmiPathToXPath(p) can return
gnmiPathToXPath(p) ==
  IF p.isNil THEN {<<>>}
  ELSE {Join(pathElems, <<"/">>) : pathElems \in PathElemsOf(p.at)}

PathInit ==
  /\ path \in Paths
  /\ xpc = "call"
  /\ xpath = <<>>

\* a caller's gnmiPathToXPath(path)
CallGnmiPathToXPath ==
  /\ xpc = "call"
  /\ xpath' \in gnmiPathToXPath(path)
  /\ xpc' = "done"
  /\ UNCHANGED path
  /\ UNCHANGED <<aggVars, connVars, valVars>>

NextPath == CallGnmiPathToXPath

InitPath == AggIdle /\ ConnIdle /\ ValIdle /\ PathInit

SpecPath == InitPath /\ [][NextPath]_vars

----------------------------------------------------------------------------
(* Claims about gnmiPathToXPath *)

KeysOf(pe) == IF pe.isNil \/ pe.key.isNil THEN {} ELSE pe.key.at

\* name[key=value] of an element with at most one key
Rendered(pe) ==
  (IF pe.isNil THEN <<>> ELSE pe.name)
    \o (IF KeysOf(pe) = {} THEN <<>>
        ELSE LET e == CHOOSE e \in KeysOf(pe) : TRUE IN
               <<"[">> \o e[1] \o <<"=">> \o e[2] \o <<"]">>)

\* where the i-th element starts in the result, less one
RECURSIVE Offset(_, _)
Offset(elems, i) ==
  IF i = 1 THEN 0 ELSE Offset(elems, i - 1) + Len(Rendered(elems[i - 1])) + 1

PathA == [isNil |-> FALSE, name |-> <<"a">>, key |-> Ref(FALSE, {})]

PathBk ==
  [isNil |-> FALSE, name |-> <<"b">>,
   key |-> Ref(FALSE, {<<(<<"k">>), (<<"v">>)>>})]

\* C9: gnmiPathToXPath returns a string for every path; "" for a nil path;
\* for a path whose elements have at most one key each, the elements in
\* input order, each as its name followed by [key=value], with one '/'
\* between neighbours and none before the first or after the last.
C9_XPath ==
  xpc = "done" =>
    /\ xpath \in Seq({"a", "b", "/", "k", "j", "v", "[", "]", "="})
    /\ path.isNil => xpath = <<>>
    /\ (~path.isNil /\ \A i \in DOMAIN path.at : Cardinality(KeysOf(path.at[i])) <= 1) =>
         LET elems == path.at
             n == Len(elems)
         IN /\ n = 0 => xpath = <<>>
            /\ n > 0 => Len(xpath) = Offset(elems, n) + Len(Rendered(elems[n]))
            /\ \A i \in 1..n :
                 SubSeq(xpath, Offset(elems, i) + 1,
                        Offset(elems, i) + Len(Rendered(elems[i])))
                   = Rendered(elems[i])
            /\ \A i \in 2..n : xpath[Offset(elems, i)] = "/"
    /\ path = Ref(FALSE, <<PathA, PathBk>>) =>
         xpath = <<"a", "/", "b", "[", "k", "=", "v", "]">>
    /\ path = Ref(FALSE, <<[isNil |-> FALSE, name |-> <<>>, key |-> Ref(FALSE, {})]>>) =>
         xpath = <<>>

C9_Witness ==
  /\ xpc = "done"
  /\ path = Ref(FALSE, <<PathA, PathBk>>)
  /\ xpath = <<"a", "/", "b", "[", "k", "=", "v", "]">>

====
